---------------------------- MODULE Spec2Model ----------------------------
(***************************************************************************)
(* Model of the option pricing engines of the repository:                  *)
(*   src/models/black_scholes.py  (Analytic Engine)                        *)
(*   src/binomial.py              (Lattice Engine and its Greeks)          *)
(*   src/models/monte_carlo.py    (Simulation Engine and its Greeks)       *)
(*                                                                         *)
(* Numbers.  The code computes in IEEE doubles; the model computes in      *)
(* exact rationals <<numerator, denominator>> (denominator > 0, lowest     *)
(* terms).  exp and sqrt have no rational values, so wherever the code     *)
(* forms exp(x) the model takes the VALUE of that exponential as the       *)
(* input, drawn from a small set of rationals:                             *)
(*   u      stands for np.exp(sigma * np.sqrt(dt))                         *)
(*   growth stands for np.exp(r * dt)    (so np.exp(-r * dt) = 1/growth)   *)
(* For dt > 0 every pair (u > 1, growth > 0) is the image of exactly one   *)
(* (sigma > 0, r), so drawing (u, growth) is drawing (sigma, r).           *)
(***************************************************************************)
EXTENDS Integers, Sequences, FiniteSets, TLC

VARIABLES bs, lat, gk, rng, mc

vars == <<bs, lat, gk, rng, mc>>

---------------------------------------------------------------------------
(* Bounds of the model.                                                    *)
MaxPrice == 3
MaxSteps == 3
MaxArg == 1
MaxPriceVal == 1
MaxSims == 2
MaxPathSteps == 2

---------------------------------------------------------------------------
(* Exact rational arithmetic standing for the code's float arithmetic.     *)
Abs(x) == IF x < 0 THEN -x ELSE x

Min(a, b) == IF a <= b THEN a ELSE b

RECURSIVE GCD(_, _)
GCD(a, b) == IF b = 0 THEN a ELSE GCD(b, a % b)

Norm(n, d) ==
    LET g == GCD(Abs(n), Abs(d))
        s == IF d < 0 THEN -1 ELSE 1
    IN  <<(s * n) \div g, (s * d) \div g>>

R(n) == <<n, 1>>

RNeg(x) == <<-x[1], x[2]>>

RAdd(x, y) ==
    LET g == GCD(x[2], y[2])
    IN  Norm(x[1] * (y[2] \div g) + y[1] * (x[2] \div g), (x[2] \div g) * y[2])

RSub(x, y) == RAdd(x, RNeg(y))

RMul(x, y) ==
    LET g1 == GCD(Abs(x[1]), y[2])
        g2 == GCD(Abs(y[1]), x[2])
    IN  <<(x[1] \div g1) * (y[1] \div g2), (x[2] \div g2) * (y[2] \div g1)>>

RInv(x) == IF x[1] > 0 THEN <<x[2], x[1]>> ELSE <<-x[2], -x[1]>>

RDiv(x, y) == RMul(x, RInv(y))

RLeq(x, y) ==
    LET g == GCD(x[2], y[2])
    IN  x[1] * (y[2] \div g) <= y[1] * (x[2] \div g)

RLt(x, y) == RLeq(x, y) /\ x # y

RMax(x, y) == IF RLeq(x, y) THEN y ELSE x

RECURSIVE RPow(_, _)
RPow(x, n) == IF n = 0 THEN R(1) ELSE RMul(x, RPow(x, n - 1))

RECURSIVE RSum(_)
RSum(s) == IF s = <<>> THEN R(0) ELSE RAdd(Head(s), RSum(Tail(s)))

(* Python's seq[lo:hi] for 0 <= lo, hi: the elements at 0-based indices    *)
(* lo .. hi-1, the end clamped to the length.                              *)
Slice(s, lo, hi) == SubSeq(s, lo + 1, Min(hi, Len(s)))

---------------------------------------------------------------------------
(* Values the variables of an engine hold while another engine is the one  *)
(* being run.                                                              *)
IdleBS == [pc |-> "idle"]
IdleLattice == [pc |-> "idle"]
IdleGreeks == [pc |-> "idle"]
IdleMC == [c \in {} |-> 0]

---------------------------------------------------------------------------
(* Lattice Engine: binomial_call / binomial_put, src/binomial.py.          *)

Quantities == {"call", "put"}

(* option_type values a caller may pass to the Lattice Engine: the two the *)
(* docstring names and one it does not.                                    *)
LatticeOptionTypes == {"European", "American", "Bermudan"}

(* Values of u = np.exp(sigma * np.sqrt(dt)) for sigma > 0, dt > 0.        *)
UpFactors == {<<2, 1>>, <<3, 2>>}

(* Values of np.exp(r * dt): r < 0, r = 0, r > 0.                          *)
GrowthFactors == {<<1, 4>>, <<1, 1>>, <<2, 1>>, <<4, 1>>}

(* d = 1 / u *)
DownFactor(u) == RDiv(R(1), u)

(* p = (np.exp(r * dt) - d) / (u - d) *)
RiskNeutralP(u, growth) ==
    RDiv(RSub(growth, DownFactor(u)), RSub(u, DownFactor(u)))

(* np.exp(-r * dt) *)
Discount(growth) == RDiv(R(1), growth)

(* ST = np.array([S * (u**j) * (d**(steps - j)) for j in range(steps + 1)]) *)
TerminalPrices(S, u, steps) ==
    [j1 \in 1..(steps + 1) |->
        RMul(RMul(S, RPow(u, j1 - 1)), RPow(DownFactor(u), steps - (j1 - 1)))]

(* ST - K for the call, K - ST for the put, elementwise.                   *)
Intrinsic(Q, ST, K) ==
    [k1 \in 1..Len(ST) |-> IF Q = "call" THEN RSub(ST[k1], K) ELSE RSub(K, ST[k1])]

(* np.maximum(ST - K, 0) / np.maximum(K - ST, 0) *)
TerminalPayoff(Q, ST, K) ==
    [k1 \in 1..Len(ST) |-> RMax(Intrinsic(Q, ST, K)[k1], R(0))]

ShrinkNoSlice(ST, i, u) == [k1 \in 1..Len(ST) |-> RDiv(ST[k1], u)]

(* ST = ST[:i + 1] / u *)
ShrinkST(ST, i, u) ==
    LET kept == Slice(ST, 0, i + 1)
    IN  [k1 \in 1..Len(kept) |-> RDiv(kept[k1], u)]

(* np.exp(-r * dt) * (p * option_values[1:i + 2]                           *)
(*                    + (1 - p) * option_values[0:i + 1])                  *)
(* The two slices have equal lengths whenever Len(V) >= i + 2.             *)
Continuation(V, i, p, disc) ==
    LET up == Slice(V, 1, i + 2)
        dn == Slice(V, 0, i + 1)
    IN  [k1 \in 1..Min(Len(up), Len(dn)) |->
            RMul(disc, RAdd(RMul(p, up[k1]), RMul(RSub(R(1), p), dn[k1])))]

RMin(x, y) == IF RLeq(x, y) THEN x ELSE y

EarlyExerciseMin(V, intrinsic) ==
    [k1 \in 1..Min(Len(V), Len(intrinsic)) |-> RMin(V[k1], intrinsic[k1])]

(* np.maximum(option_values, ST - K) / np.maximum(option_values, K - ST)   *)
EarlyExercise(V, intrinsic) ==
    [k1 \in 1..Min(Len(V), Len(intrinsic)) |-> RMax(V[k1], intrinsic[k1])]

(* One iteration of the loop `for i in range(steps - 1, -1, -1)`.          *)
LoopBody(Q, K, u, growth, option_type, i, ST, V) ==
    LET ST2 == ShrinkST(ST, i, u)
        cont == Continuation(V, i, RiskNeutralP(u, growth), Discount(growth))
        intr == Intrinsic(Q, ST2, K)
    IN  [ST |-> ST2,
         intrinsic |-> IF option_type = "American" THEN intr ELSE <<>>,
         option_values |-> IF option_type = "American"
                           THEN EarlyExercise(cont, intr)
                           ELSE cont]

RECURSIVE BackwardInduction(_, _, _, _, _, _, _, _)
BackwardInduction(Q, K, u, growth, option_type, i, ST, V) ==
    IF i < 0 THEN V[1]
    ELSE LET b == LoopBody(Q, K, u, growth, option_type, i, ST, V)
         IN  BackwardInduction(Q, K, u, growth, option_type, i - 1,
                               b.ST, b.option_values)

(* The whole of binomial_call (Q = "call") / binomial_put (Q = "put").     *)
binomial(Q, S, K, u, growth, steps, option_type) ==
    BackwardInduction(Q, K, u, growth, option_type, steps - 1,
                      TerminalPrices(S, u, steps),
                      TerminalPayoff(Q, TerminalPrices(S, u, steps), K))

InitLattice ==
    /\ \E Q \in Quantities, S \in 1..MaxPrice, K \in 1..MaxPrice,
          u \in UpFactors, growth \in GrowthFactors, steps \in 1..MaxSteps,
          option_type \in LatticeOptionTypes :
            lat = [pc |-> "entry", Q |-> Q, S |-> R(S), K |-> R(K), u |-> u,
                   growth |-> growth, steps |-> steps,
                   option_type |-> option_type,
                   i |-> steps, iters |-> 0, ST |-> <<>>, intrinsic |-> <<>>,
                   option_values |-> <<>>, result |-> R(0)]
    /\ bs = IdleBS /\ gk = IdleGreeks /\ rng = 0 /\ mc = IdleMC

(* Lines 20-26 / 73-79: parameters, terminal prices and payoffs.           *)
LatticeSetup ==
    /\ lat.pc = "entry"
    /\ lat' = [lat EXCEPT !.pc = "loop",
                          !.i = lat.steps - 1,
                          !.ST = TerminalPrices(lat.S, lat.u, lat.steps),
                          !.option_values =
                              TerminalPayoff(lat.Q,
                                  TerminalPrices(lat.S, lat.u, lat.steps), lat.K)]
    /\ UNCHANGED <<bs, gk, rng, mc>>

(* Lines 28-33 / 81-86: one backward step, for the current i.              *)
LatticeBackwardStep ==
    /\ lat.pc = "loop"
    /\ lat.i >= 0
    /\ LET b == LoopBody(lat.Q, lat.K, lat.u, lat.growth, lat.option_type,
                         lat.i, lat.ST, lat.option_values)
       IN  lat' = [lat EXCEPT !.ST = b.ST,
                              !.intrinsic = b.intrinsic,
                              !.option_values = b.option_values,
                              !.iters = lat.iters + 1,
                              !.i = lat.i - 1]
    /\ UNCHANGED <<bs, gk, rng, mc>>

(* Line 35 / 88: return option_values[0].                                  *)
LatticeReturn ==
    /\ lat.pc = "loop"
    /\ lat.i < 0
    /\ lat' = [lat EXCEPT !.pc = "done", !.result = lat.option_values[1]]
    /\ UNCHANGED <<bs, gk, rng, mc>>

NextLattice == LatticeSetup \/ LatticeBackwardStep \/ LatticeReturn

SpecLattice == InitLattice /\ [][NextLattice]_vars

(* The step whose iteration ran last (steps before the first iteration).   *)
LatticeStepDone == lat.i + 1

ProbabilityInUnitInterval ==
    /\ RLeq(R(0), RiskNeutralP(lat.u, lat.growth))
    /\ RLeq(RiskNeutralP(lat.u, lat.growth), R(1))

(* The stepwise run and the closed recursion agree on the returned price.  *)
LatticeRunMatchesBinomial ==
    lat.pc = "done" =>
        lat.result = binomial(lat.Q, lat.S, lat.K, lat.u, lat.growth,
                              lat.steps, lat.option_type)

(* The asset price of the node reached after k up moves and i - k down     *)
(* moves: S * u^k * d^(i-k).                                               *)
NodePrice(S, u, i, k) == RMul(RMul(S, RPow(u, k)), RPow(DownFactor(u), i - k))

LatticeSupported == {"European", "American"}

(* C3: binomial_call and binomial_put called with an option_type other     *)
(* than "European" or "American" fail with an error and never return a     *)
(* price.                                                                  *)
C3_UnsupportedExerciseStyleNeverReturns ==
    lat.pc = "done" => lat.option_type \in LatticeSupported

(* C4 as stated: for every parameter set, also when p is outside [0,1],    *)
(* the American price is at least the European price of the same           *)
(* parameters.                                                             *)
C4_AmericanGeqEuropean_AnyP ==
    (lat.pc = "done" /\ lat.option_type = "American") =>
        RLeq(binomial(lat.Q, lat.S, lat.K, lat.u, lat.growth, lat.steps,
                      "European"),
             lat.result)

(* C4 amended: whenever the risk-neutral probability p lies in [0,1], the  *)
(* American price is at least the European price of the same parameters,   *)
(* for the call and for the put.                                           *)
C4_AmericanGeqEuropean_UnitP ==
    (lat.pc = "done" /\ lat.option_type = "American"
        /\ ProbabilityInUnitInterval) =>
        RLeq(binomial(lat.Q, lat.S, lat.K, lat.u, lat.growth, lat.steps,
                      "European"),
             lat.result)

(* An American run with p in [0,1] whose early exercise raised the price   *)
(* strictly above the European one.                                        *)
C4_Witness ==
    /\ lat.pc = "done" /\ lat.option_type = "American"
    /\ lat.steps >= 2
    /\ ProbabilityInUnitInterval
    /\ RLt(binomial(lat.Q, lat.S, lat.K, lat.u, lat.growth, lat.steps,
                    "European"),
           lat.result)

(* C7: in the American backward induction, after the iteration for step i  *)
(* the intrinsic value compared at node k (0 <= k <= i) is that of the     *)
(* node's asset price S * u^k * d^(i-k): price - K for the call, K - price *)
(* for the put.                                                            *)
C7_IntrinsicFromNodePrice ==
    (lat.pc \in {"loop", "done"} /\ lat.iters > 0
        /\ lat.option_type = "American") =>
        /\ Len(lat.intrinsic) = LatticeStepDone + 1
        /\ \A k \in 0..LatticeStepDone :
              lat.intrinsic[k + 1] =
                  IF lat.Q = "call"
                  THEN RSub(NodePrice(lat.S, lat.u, LatticeStepDone, k), lat.K)
                  ELSE RSub(lat.K, NodePrice(lat.S, lat.u, LatticeStepDone, k))

(* C8: with steps >= 1 both arrays have length steps + 1 before the        *)
(* backward pass and length i + 1 after the iteration for step i (so each  *)
(* iteration shrinks both by one, in lockstep); the loop runs exactly      *)
(* steps iterations; at step 0 the option-value array has one element,     *)
(* which is the returned price.                                            *)
C8_ArraysShrinkInLockstep ==
    /\ lat.pc = "loop" =>
          /\ Len(lat.ST) = LatticeStepDone + 1
          /\ Len(lat.option_values) = LatticeStepDone + 1
          /\ lat.iters = lat.steps - LatticeStepDone
          /\ (lat.iters = 0 => Len(lat.ST) = lat.steps + 1)
    /\ lat.pc = "done" =>
          /\ lat.iters = lat.steps
          /\ LatticeStepDone = 0
          /\ Len(lat.ST) = 1
          /\ Len(lat.option_values) = 1
          /\ lat.result = lat.option_values[1]

(* A run of at least two steps that has returned.                          *)
C8_Witness ==
    lat.pc = "done" /\ lat.steps >= 2 /\ lat.iters = lat.steps

---------------------------------------------------------------------------
(* Analytic Engine: black_scholes_call / black_scholes_put,                *)
(* src/models/black_scholes.py.                                            *)

BSFunctions == {"black_scholes_call", "black_scholes_put"}

(* Values a price can take where the model does not compute it (the        *)
(* closed form needs log, sqrt and the normal CDF; a simulated or bumped   *)
(* price needs exp): any value of this set may be returned.                *)
PriceVals == {R(v) : v \in 0..MaxPriceVal}

DegenerateInputNoStrike(S, K, T, sigma) == T <= 0 \/ sigma <= 0 \/ S <= 0

(* if T <= 0 or sigma <= 0 or S <= 0 or K <= 0 *)
DegenerateInput(S, K, T, sigma) == T <= 0 \/ sigma <= 0 \/ S <= 0 \/ K <= 0

InitBS ==
    /\ \E fn \in BSFunctions, S \in -1..MaxArg, K \in -1..MaxArg,
          T \in -1..MaxArg, r \in -1..MaxArg, sigma \in -1..MaxArg :
            bs = [pc |-> "entry", fn |-> fn, S |-> S, K |-> K, T |-> T,
                  r |-> r, sigma |-> sigma, closed_form |-> FALSE,
                  result |-> <<>>]
    /\ lat = IdleLattice /\ gk = IdleGreeks /\ rng = 0 /\ mc = IdleMC

(* Lines 20-21 / 48-49: the guard, return 0.0.                             *)
BSGuardReturn ==
    /\ bs.pc = "entry"
    /\ DegenerateInput(bs.S, bs.K, bs.T, bs.sigma)
    /\ bs' = [bs EXCEPT !.pc = "done", !.result = R(0)]
    /\ UNCHANGED <<lat, gk, rng, mc>>

(* Lines 23-25 / 51-53: d1, d2 and the closed form.  S / K on Python       *)
(* floats raises ZeroDivisionError when K = 0; otherwise a float is        *)
(* returned.                                                               *)
BSClosedForm ==
    /\ bs.pc = "entry"
    /\ ~DegenerateInput(bs.S, bs.K, bs.T, bs.sigma)
    /\ IF bs.K = 0
       THEN bs' = [bs EXCEPT !.pc = "raised", !.closed_form = TRUE]
       ELSE \E v \in PriceVals :
               bs' = [bs EXCEPT !.pc = "done", !.closed_form = TRUE,
                                !.result = v]
    /\ UNCHANGED <<lat, gk, rng, mc>>

NextBS == BSGuardReturn \/ BSClosedForm

SpecBS == InitBS /\ [][NextBS]_vars

(* C1: black_scholes_call and black_scholes_put return exactly 0.0,        *)
(* without raising and without evaluating the closed form, whenever at     *)
(* least one of T <= 0, sigma <= 0, S <= 0, K <= 0 holds, for any r.       *)
C1_DegenerateInputReturnsZero ==
    (bs.pc # "entry"
        /\ (bs.T <= 0 \/ bs.sigma <= 0 \/ bs.S <= 0 \/ bs.K <= 0)) =>
        /\ bs.pc = "done"
        /\ bs.result = R(0)
        /\ ~bs.closed_form

(* A put that returned 0.0 with the strike as the only degenerate input    *)
(* and a non-zero rate.                                                    *)
C1_Witness ==
    /\ bs.pc = "done" /\ bs.fn = "black_scholes_put"
    /\ bs.T > 0 /\ bs.sigma > 0 /\ bs.S > 0 /\ bs.K <= 0 /\ bs.r # 0
    /\ bs.result = R(0) /\ ~bs.closed_form

---------------------------------------------------------------------------
(* The process-wide generator behind np.random.randn.  Its state is the    *)
(* variable rng; the model's generator is a full-period congruential one   *)
(* on 0..7, and a standard normal draw is one of -1, 0, 1.                 *)
RandAdvance(s) == (5 * s + 3) % 8

Gauss(s) == (s % 3) - 1

(* The n values np.random.randn draws in one call from state s.            *)
RECURSIVE RandnValues(_, _)
RandnValues(s, n) ==
    IF n = 0 THEN <<>>
    ELSE <<Gauss(RandAdvance(s))>> \o RandnValues(RandAdvance(s), n - 1)

(* The generator state after that call.                                    *)
RECURSIVE RandnState(_, _)
RandnState(s, n) == IF n = 0 THEN s ELSE RandnState(RandAdvance(s), n - 1)

---------------------------------------------------------------------------
(* Sensitivities: binomial_greeks_call / binomial_greeks_put               *)
(* (src/binomial.py) and monte_carlo_greeks_call / monte_carlo_greeks_put  *)
(* (src/models/monte_carlo.py).  One action per pricer evaluation; the     *)
(* price an evaluation returns is any value of PriceVals.                  *)

LatticeGreeksFunctions == {"binomial_greeks_call", "binomial_greeks_put"}

MCGreeksFunctions == {"monte_carlo_greeks_call", "monte_carlo_greeks_put"}

(* Maturities T passed by the caller: a year, a day, below both floors,    *)
(* and negative (st.number_input sets no minimum).                         *)
GreeksMaturities == {<<1, 1>>, <<1, 365>>, <<1, 20000>>, <<-1, 1>>}

(* dT = 1/365, dSigma = 0.01, dR = 0.0001; dS = 0.01 * S *)
dT == <<1, 365>>

dSigma == <<1, 100>>

dR == <<1, 10000>>

dS(S) == RMul(<<1, 100>>, S)

(* epsilon=1e-4 *)
epsilon == <<1, 10000>>

LatticeThetaMaturityNoFloor(T) == RSub(T, dT)

(* T_theta = max(T - dT, 1e-5) *)
LatticeThetaMaturity(T) == RMax(RSub(T, dT), <<1, 100000>>)

(* T_eps = max(T - epsilon, 1e-6) *)
MCThetaMaturity(T) == RMax(RSub(T, epsilon), <<1, 1000000>>)

PricerArgs(g, S, T, r, sigma) ==
    [S |-> S, K |-> g.K, T |-> T, r |-> r, sigma |-> sigma,
     steps |-> g.steps, option_type |-> g.option_type,
     simulations |-> g.simulations]

LatticeGreeksArgsVegaOnTheta(g, n) ==
    CASE n = 1 -> PricerArgs(g, g.S, g.T, g.r, g.sigma)
      [] n = 2 -> PricerArgs(g, RAdd(g.S, dS(g.S)), g.T, g.r, g.sigma)
      [] n = 3 -> PricerArgs(g, RSub(g.S, dS(g.S)), g.T, g.r, g.sigma)
      [] n = 4 -> PricerArgs(g, g.S, LatticeThetaMaturity(g.T), g.r,
                             RAdd(g.sigma, dSigma))
      [] n = 5 -> PricerArgs(g, g.S, g.T, g.r, RAdd(g.sigma, dSigma))
      [] n = 6 -> PricerArgs(g, g.S, g.T, g.r, RSub(g.sigma, dSigma))
      [] n = 7 -> PricerArgs(g, g.S, g.T, RAdd(g.r, dR), g.sigma)
      [] n = 8 -> PricerArgs(g, g.S, g.T, RSub(g.r, dR), g.sigma)

(* The arguments of the n-th call of binomial_call / binomial_put in       *)
(* binomial_greeks_call / binomial_greeks_put (lines 43-60 / 96-112).      *)
LatticeGreeksArgs(g, n) ==
    CASE n = 1 -> PricerArgs(g, g.S, g.T, g.r, g.sigma)
      [] n = 2 -> PricerArgs(g, RAdd(g.S, dS(g.S)), g.T, g.r, g.sigma)
      [] n = 3 -> PricerArgs(g, RSub(g.S, dS(g.S)), g.T, g.r, g.sigma)
      [] n = 4 -> PricerArgs(g, g.S, LatticeThetaMaturity(g.T), g.r, g.sigma)
      [] n = 5 -> PricerArgs(g, g.S, g.T, g.r, RAdd(g.sigma, dSigma))
      [] n = 6 -> PricerArgs(g, g.S, g.T, g.r, RSub(g.sigma, dSigma))
      [] n = 7 -> PricerArgs(g, g.S, g.T, RAdd(g.r, dR), g.sigma)
      [] n = 8 -> PricerArgs(g, g.S, g.T, RSub(g.r, dR), g.sigma)

(* The arguments of the n-th call of price_fn in monte_carlo_greeks_call / *)
(* monte_carlo_greeks_put (lines 50-62 / 104-116); price_fn fixes          *)
(* option_type="European" and leaves steps at its default.                 *)
MCGreeksArgs(g, n) ==
    CASE n = 1 -> PricerArgs(g, g.S, g.T, g.r, g.sigma)
      [] n = 2 -> PricerArgs(g, RAdd(g.S, epsilon), g.T, g.r, g.sigma)
      [] n = 3 -> PricerArgs(g, RSub(g.S, epsilon), g.T, g.r, g.sigma)
      [] n = 4 -> PricerArgs(g, g.S, MCThetaMaturity(g.T), g.r, g.sigma)
      [] n = 5 -> PricerArgs(g, g.S, RAdd(g.T, epsilon), g.r, g.sigma)
      [] n = 6 -> PricerArgs(g, g.S, g.T, g.r, RAdd(g.sigma, epsilon))
      [] n = 7 -> PricerArgs(g, g.S, g.T, g.r, RSub(g.sigma, epsilon))
      [] n = 8 -> PricerArgs(g, g.S, g.T, RAdd(g.r, epsilon), g.sigma)
      [] n = 9 -> PricerArgs(g, g.S, g.T, RSub(g.r, epsilon), g.sigma)

(* The returned mapping of binomial_greeks_* from the prices of its eight  *)
(* evaluations (lines 47-69).                                              *)
LatticeGreeksResult(g, price) ==
    [delta |-> RDiv(RSub(price[2], price[3]), RMul(R(2), dS(g.S))),
     gamma |-> RDiv(RAdd(RSub(price[2], RMul(R(2), price[1])), price[3]),
                    RPow(dS(g.S), 2)),
     theta |-> RDiv(RSub(price[4], price[1]), dT),
     vega |-> RDiv(RSub(price[5], price[6]), RMul(R(2), dSigma)),
     rho |-> RDiv(RSub(price[7], price[8]), RMul(R(2), dR))]

(* The returned mapping of monte_carlo_greeks_* from the prices of its     *)
(* nine evaluations (lines 54-71).                                         *)
MCGreeksResult(g, price) ==
    [price |-> price[1],
     delta |-> RDiv(RSub(price[2], price[3]), RMul(R(2), epsilon)),
     gamma |-> RDiv(RAdd(RSub(price[2], RMul(R(2), price[1])), price[3]),
                    RPow(epsilon, 2)),
     theta |-> RDiv(RSub(price[4], price[5]), RMul(R(2), epsilon)),
     vega |-> RDiv(RSub(price[6], price[7]), RMul(R(2), epsilon)),
     rho |-> RDiv(RSub(price[8], price[9]), RMul(R(2), epsilon))]

InitGreeks ==
    /\ \/ \E fn \in LatticeGreeksFunctions, T \in GreeksMaturities,
             steps \in {1, MaxSteps}, option_type \in {"European", "American"} :
               gk = [pc |-> "eval", fn |-> fn, S |-> R(100), K |-> R(100),
                     T |-> T, r |-> <<1, 50>>, sigma |-> <<1, 5>>,
                     steps |-> steps, option_type |-> option_type,
                     simulations |-> 0, evals |-> <<>>, price |-> <<>>,
                     greeks |-> <<>>]
       \/ \E fn \in MCGreeksFunctions, T \in GreeksMaturities,
             simulations \in {1, MaxSims} :
               gk = [pc |-> "eval", fn |-> fn, S |-> R(100), K |-> R(100),
                     T |-> T, r |-> <<1, 50>>, sigma |-> <<1, 5>>,
                     steps |-> 100, option_type |-> "European",
                     simulations |-> simulations, evals |-> <<>>,
                     price |-> <<>>, greeks |-> <<>>]
    /\ bs = IdleBS /\ lat = IdleLattice /\ rng = 0 /\ mc = IdleMC

(* One call of binomial_call / binomial_put from binomial_greeks_*.        *)
LatticeGreeksEvaluate ==
    /\ gk.pc = "eval"
    /\ gk.fn \in LatticeGreeksFunctions
    /\ Len(gk.evals) < 8
    /\ \E v \in PriceVals :
          gk' = [gk EXCEPT
                    !.evals = Append(@, LatticeGreeksArgs(gk, Len(gk.evals) + 1)),
                    !.price = Append(@, v)]
    /\ UNCHANGED <<bs, lat, rng, mc>>

(* One call of price_fn from monte_carlo_greeks_*: monte_carlo_call /      *)
(* monte_carlo_put, European branch, which draws `simulations` normals     *)
(* from the process-wide generator.                                        *)
MCGreeksEvaluate ==
    /\ gk.pc = "eval"
    /\ gk.fn \in MCGreeksFunctions
    /\ Len(gk.evals) < 9
    /\ \E v \in PriceVals :
          gk' = [gk EXCEPT
                    !.evals = Append(@, MCGreeksArgs(gk, Len(gk.evals) + 1)),
                    !.price = Append(@, v)]
    /\ rng' = RandnState(rng, gk.simulations)
    /\ UNCHANGED <<bs, lat, mc>>

(* return {...} of binomial_greeks_*.                                      *)
LatticeGreeksReturn ==
    /\ gk.pc = "eval"
    /\ gk.fn \in LatticeGreeksFunctions
    /\ Len(gk.evals) = 8
    /\ gk' = [gk EXCEPT !.pc = "done",
                        !.greeks = LatticeGreeksResult(gk, gk.price)]
    /\ UNCHANGED <<bs, lat, rng, mc>>

(* return {...} of monte_carlo_greeks_*.                                   *)
MCGreeksReturn ==
    /\ gk.pc = "eval"
    /\ gk.fn \in MCGreeksFunctions
    /\ Len(gk.evals) = 9
    /\ gk' = [gk EXCEPT !.pc = "done",
                        !.greeks = MCGreeksResult(gk, gk.price)]
    /\ UNCHANGED <<bs, lat, rng, mc>>

NextGreeks ==
    \/ LatticeGreeksEvaluate
    \/ MCGreeksEvaluate
    \/ LatticeGreeksReturn
    \/ MCGreeksReturn

SpecGreeks == InitGreeks /\ [][NextGreeks]_vars

(* The inputs among S, T, r, sigma in which evaluation e differs from the   *)
(* caller's.                                                               *)
BumpedInputs(e) == {x \in {"S", "T", "r", "sigma"} : e[x] # gk[x]}

(* C6: every pricer evaluation of one Greeks call uses the option style,   *)
(* steps and simulation count of the base evaluation of that call, differs *)
(* from the caller's (S, K, T, r, sigma) in at most one input, and never   *)
(* changes K; the base evaluation uses the caller's inputs.                *)
C6_OnlyTheBumpedInputVaries ==
    gk.pc \in {"eval", "done"} =>
        \A n \in 1..Len(gk.evals) :
            /\ gk.evals[n].option_type = gk.evals[1].option_type
            /\ gk.evals[n].steps = gk.evals[1].steps
            /\ gk.evals[n].simulations = gk.evals[1].simulations
            /\ gk.evals[n].K = gk.K
            /\ Cardinality(BumpedInputs(gk.evals[n])) <= 1
            /\ (n = 1 => BumpedInputs(gk.evals[n]) = {})

(* A finished American lattice Greeks call on a maturity where the theta   *)
(* floor applies: all eight evaluations made, theta's differing in T only. *)
C6_Witness ==
    /\ gk.pc = "done" /\ gk.fn = "binomial_greeks_put"
    /\ gk.option_type = "American" /\ gk.T = <<1, 365>>
    /\ Len(gk.evals) = 8
    /\ BumpedInputs(gk.evals[4]) = {"T"}
    /\ BumpedInputs(gk.evals[6]) = {"sigma"}

(* The theta convention of each engine, on a finished Greeks call:         *)
(* Lattice  theta = [f(max(T - 1/365, 1e-5)) - f(T)] / (1/365);            *)
(* Simulation theta = [f(max(T - 1e-4, 1e-6)) - f(T + 1e-4)] / (2 * 1e-4), *)
(* the floor on the down-shift only.                                       *)
ThetaConvention ==
    IF gk.fn \in LatticeGreeksFunctions
    THEN /\ gk.evals[4].T = RMax(RSub(gk.T, <<1, 365>>), <<1, 100000>>)
         /\ gk.evals[1].T = gk.T
         /\ gk.greeks.theta =
                RMul(RSub(gk.price[4], gk.price[1]), R(365))
    ELSE /\ gk.evals[4].T = RMax(RSub(gk.T, <<1, 10000>>), <<1, 1000000>>)
         /\ gk.evals[5].T = RAdd(gk.T, <<1, 10000>>)
         /\ gk.greeks.theta =
                RMul(RSub(gk.price[4], gk.price[5]), R(5000))

(* The maturities of the evaluations theta is computed from.               *)
ThetaMaturities ==
    IF gk.fn \in LatticeGreeksFunctions
    THEN {gk.evals[4].T, gk.evals[1].T}
    ELSE {gk.evals[4].T, gk.evals[5].T}

(* C10 as stated: for every input T, theta follows the per-engine          *)
(* convention and every maturity passed to the pricer for theta is         *)
(* strictly positive.                                                      *)
C10_ThetaConvention_AnyT ==
    gk.pc = "done" =>
        /\ ThetaConvention
        /\ \A m \in ThetaMaturities : RLt(R(0), m)

(* C10 amended: for every input T theta follows the per-engine convention  *)
(* and the floored down-shift maturity is strictly positive; every         *)
(* maturity passed to the pricer for theta is strictly positive whenever   *)
(* the caller's T is strictly positive.                                    *)
C10_ThetaConvention_PositiveT ==
    gk.pc = "done" =>
        /\ ThetaConvention
        /\ RLt(R(0), gk.evals[4].T)
        /\ (RLt(R(0), gk.T) => \A m \in ThetaMaturities : RLt(R(0), m))

(* A finished lattice Greeks call on a positive maturity of one day, where *)
(* the floor applies (T - dT = 0 < 1e-5), with a non-zero theta.           *)
C10_Witness ==
    /\ gk.pc = "done" /\ gk.fn = "binomial_greeks_call"
    /\ gk.T = <<1, 365>>
    /\ gk.evals[4].T = <<1, 100000>>
    /\ gk.greeks.theta = R(-365)

---------------------------------------------------------------------------
(* Simulation Engine: monte_carlo_call / monte_carlo_put,                  *)
(* src/models/monte_carlo.py.  Two callers of the same process each make   *)
(* one call; both calls draw from the process-wide generator rng.          *)
(* In a frame, drift stands for np.exp((r - 0.5 * sigma**2) * dt), vol for *)
(* np.exp(sigma * np.sqrt(dt)) (dt = T for the European style) and disc    *)
(* for np.exp(-r * T), so that np.exp(drift + diffusion) for a draw z is   *)
(* drift * vol^z.                                                          *)

Callers == {"a", "b"}

MCOptionTypes == {"European", "Asian", "Bermudan"}

MCBranchElseAsian(option_type) ==
    IF option_type = "European" THEN "European" ELSE "Asian"

(* The if / elif / else of lines 21, 27, 43 (75, 81, 97).                  *)
MCBranch(option_type) ==
    IF option_type = "European" THEN "European"
    ELSE IF option_type = "Asian" THEN "Asian"
    ELSE "raise"

(* np.exp(drift + diffusion) for the draw z *)
ExpStep(drift, vol, z) ==
    RMul(drift, IF z >= 0 THEN RPow(vol, z) ELSE RPow(RInv(vol), -z))

(* np.maximum(x - K, 0) for the call, np.maximum(K - x, 0) for the put *)
Payoff(Q, x, K) == RMax(IF Q = "call" THEN RSub(x, K) ELSE RSub(K, x), R(0))

(* np.mean of a vector *)
Mean(v) == RDiv(RSum(v), R(Len(v)))

(* np.exp(-r * T) * np.mean(payoff) *)
DiscountedMean(f, x) ==
    RMul(f.disc, Mean([n \in 1..Len(x) |-> Payoff(f.Q, x[n], f.K)]))

(* Lines 23-25 / 77-79, from the vector Z of draws.                        *)
EuropeanPrice(f, Z) ==
    DiscountedMean(f, [n \in 1..Len(Z) |->
                          RMul(f.S, ExpStep(f.drift, f.vol, Z[n]))])

(* np.random.randn(simulations, steps): the values drawn, row by row.      *)
Reshape(values, simulations, steps) ==
    [n \in 1..simulations |->
        [t \in 1..steps |-> values[(n - 1) * steps + t]]]

(* S_paths = np.zeros((simulations, steps + 1)); S_paths[:, 0] = S *)
InitialPaths(S, simulations, steps) ==
    [n \in 1..simulations |->
        [t1 \in 1..(steps + 1) |-> IF t1 = 1 THEN S ELSE R(0)]]

AsianStepFromInitial(f, S_paths, Z, t) ==
    [n \in 1..Len(S_paths) |->
        [S_paths[n] EXCEPT
            ![t + 1] = RMul(S_paths[n][1], ExpStep(f.drift, f.vol, Z[n][t]))]]

(* S_paths[:, t] = S_paths[:, t - 1] * np.exp(drift + diffusion[:, t - 1]) *)
(* (0-based column t is element t + 1 here, draw column t - 1 element t).  *)
AsianStep(f, S_paths, Z, t) ==
    [n \in 1..Len(S_paths) |->
        [S_paths[n] EXCEPT
            ![t + 1] = RMul(S_paths[n][t], ExpStep(f.drift, f.vol, Z[n][t]))]]

(* S_avg = np.mean(S_paths, axis=1) *)
AsianAverage(S_paths) == [n \in 1..Len(S_paths) |-> Mean(S_paths[n])]

RECURSIVE AsianPaths(_, _, _, _)
AsianPaths(f, S_paths, Z, t) ==
    IF t > f.steps THEN S_paths
    ELSE AsianPaths(f, AsianStep(f, S_paths, Z, t), Z, t + 1)

(* The price a call with frame f returns when its draws start from         *)
(* generator state s.                                                      *)
monte_carlo(f, s) ==
    IF f.option_type = "European"
    THEN EuropeanPrice(f, RandnValues(s, f.simulations))
    ELSE DiscountedMean(f,
            AsianAverage(
                AsianPaths(f, InitialPaths(f.S, f.simulations, f.steps),
                    Reshape(RandnValues(s, f.simulations * f.steps),
                            f.simulations, f.steps),
                    1)))

MCFrames ==
    {[pc |-> "entry", Q |-> Q, S |-> R(2), K |-> R(2), drift |-> R(1),
      vol |-> R(2), disc |-> <<1, 2>>, simulations |-> simulations,
      steps |-> steps, option_type |-> option_type, Z |-> <<>>,
      S_paths |-> <<>>, t |-> 0, S_avg |-> <<>>, draws |-> 0,
      result |-> <<>>, error |-> <<>>] :
        Q \in Quantities, simulations \in 1..MaxSims,
        steps \in 1..MaxPathSteps, option_type \in MCOptionTypes}

InitMC ==
    /\ mc \in [Callers -> MCFrames]
    /\ rng = 0
    /\ bs = IdleBS /\ lat = IdleLattice /\ gk = IdleGreeks

(* Lines 21-25 / 75-79: the European branch.                               *)
MCEuropean(c) ==
    /\ mc[c].pc = "entry"
    /\ MCBranch(mc[c].option_type) = "European"
    /\ mc' = [mc EXCEPT ![c] =
                [@ EXCEPT !.pc = "done",
                          !.Z = RandnValues(rng, mc[c].simulations),
                          !.draws = mc[c].simulations,
                          !.result = EuropeanPrice(mc[c],
                                        RandnValues(rng, mc[c].simulations))]]
    /\ rng' = RandnState(rng, mc[c].simulations)
    /\ UNCHANGED <<bs, lat, gk>>

(* Lines 27-34 / 81-88: the Asian branch up to the loop.                   *)
MCAsianDraw(c) ==
    /\ mc[c].pc = "entry"
    /\ MCBranch(mc[c].option_type) = "Asian"
    /\ mc' = [mc EXCEPT ![c] =
                [@ EXCEPT !.pc = "paths",
                          !.Z = Reshape(
                                  RandnValues(rng,
                                      mc[c].simulations * mc[c].steps),
                                  mc[c].simulations, mc[c].steps),
                          !.draws = mc[c].simulations * mc[c].steps,
                          !.S_paths = InitialPaths(mc[c].S, mc[c].simulations,
                                                   mc[c].steps),
                          !.t = 1]]
    /\ rng' = RandnState(rng, mc[c].simulations * mc[c].steps)
    /\ UNCHANGED <<bs, lat, gk>>

(* Lines 36-37 / 90-91: one iteration of `for t in range(1, steps + 1)`.   *)
MCAsianStep(c) ==
    /\ mc[c].pc = "paths"
    /\ mc[c].t <= mc[c].steps
    /\ mc' = [mc EXCEPT ![c] =
                [@ EXCEPT !.S_paths = AsianStep(mc[c], mc[c].S_paths,
                                                mc[c].Z, mc[c].t),
                          !.t = mc[c].t + 1]]
    /\ UNCHANGED <<bs, lat, gk, rng>>

(* Lines 39-41 / 93-95: average, payoff, discounted mean.                  *)
MCAsianFinish(c) ==
    /\ mc[c].pc = "paths"
    /\ mc[c].t > mc[c].steps
    /\ mc' = [mc EXCEPT ![c] =
                [@ EXCEPT !.pc = "done",
                          !.S_avg = AsianAverage(mc[c].S_paths),
                          !.result = DiscountedMean(mc[c],
                                        AsianAverage(mc[c].S_paths))]]
    /\ UNCHANGED <<bs, lat, gk, rng>>

(* Lines 43-44 / 97-98:                                                    *)
(* raise ValueError(f"Unsupported option_type: {option_type}")             *)
MCRaise(c) ==
    /\ mc[c].pc = "entry"
    /\ MCBranch(mc[c].option_type) = "raise"
    /\ mc' = [mc EXCEPT ![c] =
                [@ EXCEPT !.pc = "raised",
                          !.error = <<"Unsupported option_type: ",
                                      mc[c].option_type>>]]
    /\ UNCHANGED <<bs, lat, gk, rng>>

NextMC ==
    \E c \in Callers :
        \/ MCEuropean(c)
        \/ MCAsianDraw(c)
        \/ MCAsianStep(c)
        \/ MCAsianFinish(c)
        \/ MCRaise(c)

SpecMC == InitMC /\ [][NextMC]_vars

(* C2: monte_carlo_call and monte_carlo_put called with an option_type     *)
(* other than "European" or "Asian" end in an error whose message contains *)
(* the supplied value; no price is returned and the call draws no random   *)
(* number.                                                                 *)
C2_UnsupportedPathStyleRaises ==
    \A c \in Callers :
        mc[c].option_type \notin {"European", "Asian"} =>
            /\ mc[c].pc \in {"entry", "raised"}
            /\ mc[c].draws = 0
            /\ mc[c].result = <<>>
            /\ (mc[c].pc = "raised" =>
                  \E k \in DOMAIN mc[c].error :
                      mc[c].error[k] = mc[c].option_type)

(* A call that raised for "Bermudan" while the generator is still in its   *)
(* initial state.                                                          *)
C2_Witness ==
    \E c \in Callers :
        /\ mc[c].pc = "raised" /\ mc[c].option_type = "Bermudan"
        /\ mc[c].error = <<"Unsupported option_type: ", "Bermudan">>
        /\ rng = 0

(* C5: the result of a Simulation Engine call does not depend on which     *)
(* other calls ran before it: it is the result the call gives when it runs *)
(* alone from the process's initial generator state.                       *)
C5_ResultIndependentOfOtherCalls ==
    \A c \in Callers :
        mc[c].pc = "done" => mc[c].result = monte_carlo(mc[c], 0)

(* C9: in the Asian style each of the N paths has steps + 1 prices, the    *)
(* first is S, the price at index t is the same path's price at index      *)
(* t - 1 times the factor of that path's own t-th draw (columns not yet    *)
(* computed are still zero), and S_avg of a path is the mean over all      *)
(* steps + 1 prices, the initial S included.                               *)
C9_AsianPathsSequentialWithinPath ==
    \A c \in Callers :
        (mc[c].option_type = "Asian" /\ mc[c].pc \in {"paths", "done"}) =>
            /\ Len(mc[c].S_paths) = mc[c].simulations
            /\ \A n \in 1..mc[c].simulations :
                  /\ Len(mc[c].S_paths[n]) = mc[c].steps + 1
                  /\ mc[c].S_paths[n][1] = mc[c].S
                  /\ \A t \in 1..mc[c].steps :
                        mc[c].S_paths[n][t + 1] =
                            IF t < mc[c].t
                            THEN RMul(mc[c].S_paths[n][t],
                                      ExpStep(mc[c].drift, mc[c].vol,
                                              mc[c].Z[n][t]))
                            ELSE R(0)
                  /\ (mc[c].pc = "done" =>
                        /\ mc[c].t = mc[c].steps + 1
                        /\ RMul(mc[c].S_avg[n], R(mc[c].steps + 1)) =
                               RSum(mc[c].S_paths[n]))

(* A finished Asian call of two paths and two steps whose paths ended at   *)
(* different prices.                                                       *)
C9_Witness ==
    \E c \in Callers :
        /\ mc[c].option_type = "Asian" /\ mc[c].pc = "done"
        /\ mc[c].simulations >= 2 /\ mc[c].steps >= 2
        /\ mc[c].S_paths[1] # mc[c].S_paths[2]
        /\ mc[c].S_paths[1][3] # mc[c].S

=============================================================================
